---- MODULE Spec2Model ----
(***************************************************************************)
(* Moon Survival: the ranking score of the web application (src/app.py)    *)
(* and the console experiment (src/moon-survival.py).                      *)
(*                                                                         *)
(* The two files are two separate programs.  A behaviour of this module    *)
(* is a run of one of them: `program` is chosen in Init and never changes. *)
(*   "app"     : one POST /evaluate request, handled by evaluate()         *)
(*   "console" : one MoonSurvivalExperiment object, whose methods are      *)
(*               called in any order, each input line being one step of    *)
(*               get_individual_ranking's read loop                        *)
(***************************************************************************)
EXTENDS Integers, Sequences, FiniteSets, TLC

VARIABLES
    program,              \* "app" | "console"
    request,              \* app: the "order" value of the posted JSON body
    response,             \* app: what evaluate() returned (NoResponse while pending)
    invoked,              \* app: the scoring functions evaluate() has called
    individual_rankings,  \* console: self.individual_rankings
    team_ranking,         \* console: self.team_ranking
    last                  \* console: the last method step, what it printed/raised

vars == <<program, request, response, invoked, individual_rankings, team_ranking, last>>

(***************************************************************************)
(* Bounds                                                                  *)
(***************************************************************************)
\* Number of entries of the reference table that are kept (the programs
\* keep all 15; every len(OFFICIAL_ITEMS) / len(self.items) below is N).
N == 3

(***************************************************************************)
(* Python values                                                           *)
(***************************************************************************)
\* None is the empty tuple, a present value v is <<v>>.
None == <<>>
Some(v) == <<v>>

abs(x) == IF x < 0 THEN -x ELSE x

\* range(n) as a list: 0, 1, ..., n-1
range(n) == [k \in 1..n |-> k - 1]

RECURSIVE sum(_)
sum(xs) == IF xs = <<>> THEN 0 ELSE xs[1] + sum(Tail(xs))

(***************************************************************************)
(* The reference table (identical in both files)                           *)
(***************************************************************************)
\* The item names, in table order (translated; the source's are Chinese).
ITEM_NAMES ==
    << "oxygen_tank", "water", "star_map", "food_concentrate", "solar_panel",
       "suit_patch", "first_aid_kit", "rope", "parachute", "life_raft",
       "signal_mirror", "flashlight", "matches", "moon_map", "magnetic_compass" >>

ITEM_DESCRIPTIONS ==
    << "breathing", "fluids", "navigation", "nutrition", "power",
       "pressure_loss", "first_aid", "safety", "meteor_shield", "shelter",
       "communication", "light", "fire", "navigation_aid", "navigation_poor" >>

Item(name, official_rank, description) ==
    [name |-> name, official_rank |-> official_rank, description |-> description]

OFFICIAL_ITEMS == [k \in 1..N |-> Item(ITEM_NAMES[k], k, ITEM_DESCRIPTIONS[k])]

\* name -> the (last) table entry of that name, as a dict comprehension builds it
entry_of(name) ==
    LET ks == {k \in 1..Len(OFFICIAL_ITEMS) : OFFICIAL_ITEMS[k].name = name}
    IN  OFFICIAL_ITEMS[CHOOSE k \in ks : \A j \in ks : j <= k]

official_names == {OFFICIAL_ITEMS[k].name : k \in 1..Len(OFFICIAL_ITEMS)}

(***************************************************************************)
(* src/app.py : calculate_score                                            *)
(***************************************************************************)
\* (mutant) the 1-based rank, not rank - 1
off_map_one_based == [name \in official_names |-> entry_of(name).official_rank]

off_map == [name \in official_names |-> entry_of(name).official_rank - 1]

\* (mutant) an unknown name costs no more than the worst known one
contribution_unknown_as_worst(name, i) ==
    IF name \in DOMAIN off_map
    THEN abs(off_map[name] - i)
    ELSE Len(OFFICIAL_ITEMS) - 1

\* what one iteration of the loop adds: name at 0-based position i
contribution(name, i) ==
    IF name \in DOMAIN off_map
    THEN abs(off_map[name] - i)
    ELSE Len(OFFICIAL_ITEMS)

\* (mutant) the loop stops one position early
RECURSIVE score_loop_short(_, _, _)
score_loop_short(submitted_names, i, score) ==
    IF i >= Len(submitted_names) - 1 THEN score
    ELSE score_loop_short(submitted_names, i + 1,
                          score + contribution(submitted_names[i + 1], i))

RECURSIVE score_loop(_, _, _)
score_loop(submitted_names, i, score) ==
    IF i >= Len(submitted_names) THEN score
    ELSE score_loop(submitted_names, i + 1,
                    score + contribution(submitted_names[i + 1], i))

calculate_score(submitted_names) == score_loop(submitted_names, 0, 0)

(***************************************************************************)
(* src/app.py : evaluate                                                   *)
(***************************************************************************)
off_pos_map == [name \in official_names |-> entry_of(name).official_rank]

\* (mutant) diff against the 0-based position
per_item_entry_zero_based(name, i) ==
    [ name           |-> name,
      submitted_rank |-> i + 1,
      official_rank  |-> IF name \in DOMAIN off_pos_map
                         THEN Some(off_pos_map[name]) ELSE None,
      diff           |-> IF name \notin DOMAIN off_pos_map
                         THEN None ELSE Some(abs(off_pos_map[name] - i)) ]

per_item_entry(name, i) ==
    [ name           |-> name,
      submitted_rank |-> i + 1,
      official_rank  |-> IF name \in DOMAIN off_pos_map
                         THEN Some(off_pos_map[name]) ELSE None,
      diff           |-> IF name \notin DOMAIN off_pos_map
                         THEN None ELSE Some(abs(off_pos_map[name] - (i + 1))) ]

\* (mutant) only the length is checked
order_rejected_length_only(order) == Len(order.elems) # Len(OFFICIAL_ITEMS)

\* `order` is [is_list, elems]: whether the JSON value is a list, and its
\* elements (for a value that is no list, the things len() counts).
order_rejected(order) == ~order.is_list \/ Len(order.elems) # Len(OFFICIAL_ITEMS)

NoResponse == [status |-> 0, error |-> None, score |-> None,
               submitted |-> <<>>, official |-> <<>>, per_item |-> <<>>]

evaluate(order) ==
    IF order_rejected(order)
    THEN [status |-> 400, error |-> Some("invalid order"), score |-> None,
          submitted |-> <<>>, official |-> <<>>, per_item |-> <<>>]
    ELSE [status    |-> 200,
          error     |-> None,
          score     |-> Some(calculate_score(order.elems)),
          submitted |-> [k \in 1..Len(order.elems) |->
                            [name |-> order.elems[k], pos |-> k]],
          official  |-> OFFICIAL_ITEMS,
          per_item  |-> [k \in 1..Len(order.elems) |->
                            per_item_entry(order.elems[k], k - 1)]]

evaluate_calls(order) ==
    IF order_rejected(order) THEN <<>> ELSE <<"calculate_score">>

(***************************************************************************)
(* src/moon-survival.py : input lines                                      *)
(***************************************************************************)
\* A line is the list ranking_input.split(",") of its stripped entries.
NUMERALS == << "1", "2", "3", "4", "5", "6", "7", "8",
               "9", "10", "11", "12", "13", "14", "15", "16" >>

\* int(x): Some(value), or None when int() raises ValueError
int(x) ==
    IF x = "0" THEN Some(0)
    ELSE IF x = "-1" THEN Some(-1)
    ELSE IF \E k \in 1..Len(NUMERALS) : NUMERALS[k] = x
         THEN Some(CHOOSE k \in 1..Len(NUMERALS) : NUMERALS[k] = x)
         ELSE None

\* [int(x.strip()) - 1 for x in ...]: Some(list), or None on ValueError
parse_indices(entries) ==
    IF \E k \in 1..Len(entries) : int(entries[k]) = None
    THEN None
    ELSE Some([k \in 1..Len(entries) |-> int(entries[k])[1] - 1])

(***************************************************************************)
(* sorted(): a stable sort by key.  Keys are exact fractions num/den       *)
(* (den > 0): sum(scores) / len(scores) of small integers is exact enough  *)
(* in floating point that < and == on the quotients are those of the       *)
(* fractions.                                                              *)
(***************************************************************************)
Frac(num, den) == [num |-> num, den |-> den]
less(a, b) == a.num * b.den < b.num * a.den

\* (mutant) not stable: x goes before the elements equal to it
RECURSIVE insert_before_equal(_, _, _)
insert_before_equal(ys, x, key) ==
    IF ys = <<>> THEN <<x>>
    ELSE IF ~less(key[ys[1]], key[x]) THEN <<x>> \o ys
    ELSE <<ys[1]>> \o insert_before_equal(Tail(ys), x, key)

\* put x behind every element that is not greater than it
RECURSIVE insert(_, _, _)
insert(ys, x, key) ==
    IF ys = <<>> THEN <<x>>
    ELSE IF less(key[x], key[ys[1]]) THEN <<x>> \o ys
    ELSE <<ys[1]>> \o insert(Tail(ys), x, key)

RECURSIVE sort_loop(_, _, _)
sort_loop(done, rest, key) ==
    IF rest = <<>> THEN done
    ELSE sort_loop(insert(done, rest[1], key), Tail(rest), key)

\* sorted(xs, key=...), key a function on the elements of xs
sorted(xs, key) == sort_loop(<<>>, xs, key)

elements(xs) == {xs[k] : k \in 1..Len(xs)}

sorted_ints(xs) == sorted(xs, [x \in elements(xs) |-> Frac(x, 1)])

(***************************************************************************)
(* src/moon-survival.py : MoonSurvivalExperiment                           *)
(***************************************************************************)
items == OFFICIAL_ITEMS            \* self.items = self.OFFICIAL_ITEMS.copy()

NoResults == [shown |-> FALSE, team_score |-> 0, best |-> 0, worst |-> 0,
              individual |-> [p \in {} |-> 0]]

\* the record of one method step
Step(op, person, entries, printed, raised, results) ==
    [op |-> op, person |-> person, entries |-> entries, printed |-> printed,
     raised |-> raised, results |-> results]

\* (mutant) the indices are checked to be in range, not to be distinct
read_line_range_only(entries) ==
    LET indices == parse_indices(entries) IN
    IF indices = None
    THEN [printed |-> "invalid input", saved |-> None]
    ELSE IF Len(indices[1]) # Len(items)
    THEN [printed |-> "wrong count", saved |-> None]
    ELSE IF \E k \in 1..Len(indices[1]) :
               indices[1][k] < 0 \/ indices[1][k] >= Len(items)
    THEN [printed |-> "not exactly once", saved |-> None]
    ELSE [printed |-> "saved",
          saved |-> Some([k \in 1..Len(indices[1]) |-> items[indices[1][k] + 1]])]

\* One pass of get_individual_ranking's loop over the line `entries`:
\* what it prints and, when it saves, the ranking it stores.
read_line(entries) ==
    LET indices == parse_indices(entries) IN
    IF indices = None
    THEN [printed |-> "invalid input", saved |-> None]
    ELSE IF Len(indices[1]) # Len(items)
    THEN [printed |-> "wrong count", saved |-> None]
    ELSE IF sorted_ints(indices[1]) # range(Len(items))
    THEN [printed |-> "not exactly once", saved |-> None]
    ELSE [printed |-> "saved",
          saved |-> Some([k \in 1..Len(indices[1]) |-> items[indices[1][k] + 1]])]

\* next((i + 1 for i, x in enumerate(person_ranking) if x.name == name), 0)
first_rank(person_ranking, name) ==
    LET hits == {k \in 1..Len(person_ranking) : person_ranking[k].name = name}
    IN  IF hits = {} THEN 0 ELSE CHOOSE k \in hits : \A j \in hits : k <= j

RECURSIVE sum_ranks(_, _, _)
sum_ranks(rankings, people, name) ==
    IF people = {} THEN 0
    ELSE LET p == CHOOSE q \in people : TRUE
         IN  first_rank(rankings[p], name) + sum_ranks(rankings, people \ {p}, name)

\* item_scores[item.name] = sum(scores) / len(scores)
item_scores(rankings) ==
    [name \in {items[k].name : k \in 1..Len(items)} |->
        Frac(sum_ranks(rankings, DOMAIN rankings, name), Cardinality(DOMAIN rankings))]

\* (mutant) sorted by descending mean (the key negated)
calculate_team_ranking_descending(rankings, team) ==
    IF DOMAIN rankings = {}
    THEN [team_ranking |-> team, printed |-> "no individual rankings", raised |-> None]
    ELSE LET scores == item_scores(rankings) IN
         [team_ranking |->
              sorted(items, [it \in elements(items) |->
                                Frac(-scores[it.name].num, scores[it.name].den)]),
          printed |-> "", raised |-> None]

\* (mutant) no guard: the mean of no scores divides by zero
calculate_team_ranking_unguarded(rankings, team) ==
    IF DOMAIN rankings = {}
    THEN [team_ranking |-> team, printed |-> "", raised |-> Some("ZeroDivisionError")]
    ELSE LET scores == item_scores(rankings) IN
         [team_ranking |-> sorted(items, [it \in elements(items) |-> scores[it.name]]),
          printed |-> "", raised |-> None]

\* calculate_team_ranking: the new team_ranking, what is printed, what is raised
calculate_team_ranking(rankings, team) ==
    IF DOMAIN rankings = {}
    THEN [team_ranking |-> team, printed |-> "no individual rankings", raised |-> None]
    ELSE LET scores == item_scores(rankings) IN
         [team_ranking |-> sorted(items, [it \in elements(items) |-> scores[it.name]]),
          printed |-> "", raised |-> None]

RECURSIVE accuracy_loop(_, _, _)
accuracy_loop(ranking, i, score) ==
    IF i >= Len(ranking) THEN score
    ELSE accuracy_loop(ranking, i + 1,
                       score + abs((ranking[i + 1].official_rank - 1) - i))

calculate_accuracy(ranking) == accuracy_loop(ranking, 0, 0)

\* the numbers display_results prints
display_results(rankings, team) ==
    [shown      |-> TRUE,
     team_score |-> calculate_accuracy(team),
     best       |-> 0,
     worst      |-> sum(range(Len(items))),
     individual |-> [p \in DOMAIN rankings |-> calculate_accuracy(rankings[p])]]

(***************************************************************************)
(* Inputs                                                                  *)
(***************************************************************************)
Persons == {"Player", "Alice"}

UnknownName == "X"
Names == official_names \cup {UnknownName}

RECURSIVE SeqsOfLen(_, _)
SeqsOfLen(S, n) ==
    IF n = 0 THEN {<<>>}
    ELSE {Append(s, x) : s \in SeqsOfLen(S, n - 1), x \in S}

\* the posted orders: every list of N-1, N or N+1 names, the empty list
\* (the default of data.get), and JSON values that are no list
Requests ==
    {[is_list |-> TRUE, elems |-> e] :
        e \in SeqsOfLen(Names, N - 1) \cup SeqsOfLen(Names, N)
              \cup SeqsOfLen(Names, N + 1) \cup {<<>>}}
    \cup {[is_list |-> FALSE, elems |-> e] :
        e \in {<<>>, [k \in 1..N |-> ITEM_NAMES[k]], [k \in 1..(N + 1) |-> UnknownName]}}

Perms == {p \in [1..N -> 1..N] : \A i, j \in 1..N : i # j => p[i] # p[j]}

identity_line == [k \in 1..N |-> NUMERALS[k]]

\* the input lines: every permutation of 1..N, and lines the loop rejects
Lines ==
    {[k \in 1..N |-> NUMERALS[p[k]]] : p \in Perms}
    \cup { SubSeq(identity_line, 1, N - 1),
           Append(identity_line, NUMERALS[N + 1]),
           Append(identity_line, NUMERALS[1]),
           [identity_line EXCEPT ![1] = NUMERALS[2]],
           [identity_line EXCEPT ![1] = "0"],
           [identity_line EXCEPT ![1] = "-1"],
           [identity_line EXCEPT ![N] = NUMERALS[N + 1]],
           [identity_line EXCEPT ![1] = "x"],
           [SubSeq(identity_line, 1, N - 1) EXCEPT ![1] = "x"],
           <<"">> }

\* what the loop does with each of the lines
LineResults == [entries \in Lines |-> read_line(entries)]

(***************************************************************************)
(* Initial states                                                          *)
(***************************************************************************)
NoRankings == [p \in {} |-> <<>>]
NoStep == Step("__init__", "", 0, "", None, NoResults)
NoRequest == [is_list |-> TRUE, elems |-> <<>>]

InitApp ==
    /\ program = "app"
    /\ request \in Requests
    /\ response = NoResponse
    /\ invoked = <<>>
    /\ individual_rankings = NoRankings
    /\ team_ranking = <<>>
    /\ last = NoStep

InitConsole ==
    /\ program = "console"
    /\ request = NoRequest
    /\ response = NoResponse
    /\ invoked = <<>>
    /\ individual_rankings = NoRankings      \* __init__
    /\ team_ranking = <<>>
    /\ last = NoStep

Init == InitApp \/ InitConsole

(***************************************************************************)
(* Actions                                                                 *)
(***************************************************************************)
console_vars == <<individual_rankings, team_ranking, last>>
app_vars == <<request, response, invoked>>

\* POST /evaluate
Evaluate ==
    /\ program = "app"
    /\ response = NoResponse
    /\ response' = evaluate(request)
    /\ invoked' = evaluate_calls(request)
    /\ UNCHANGED <<program, request, console_vars>>

\* get_individual_ranking is inside its loop until a line is saved
reading == last.op = "get_individual_ranking" /\ last.printed # "saved"

\* get_individual_ranking(person_name) reads one line
GetIndividualRankingLine(person_name, entries) ==
    /\ program = "console"
    /\ reading => person_name = last.person
    /\ LET r == LineResults[entries] IN
        /\ individual_rankings' =
              IF r.saved = None THEN individual_rankings
              ELSE [p \in DOMAIN individual_rankings \cup {person_name} |->
                       IF p = person_name THEN r.saved[1] ELSE individual_rankings[p]]
        /\ last' = Step("get_individual_ranking", person_name, Len(entries),
                        r.printed, None, NoResults)
    /\ UNCHANGED <<program, app_vars, team_ranking>>

CalculateTeamRanking ==
    /\ program = "console"
    /\ ~reading
    /\ LET r == calculate_team_ranking(individual_rankings, team_ranking) IN
        /\ team_ranking' = r.team_ranking
        /\ last' = Step("calculate_team_ranking", "", 0, r.printed, r.raised, NoResults)
    /\ UNCHANGED <<program, app_vars, individual_rankings>>

DisplayResults ==
    /\ program = "console"
    /\ ~reading
    /\ last' = Step("display_results", "", 0, "", None,
                    display_results(individual_rankings, team_ranking))
    /\ UNCHANGED <<program, app_vars, individual_rankings, team_ranking>>

Next ==
    \/ Evaluate
    \/ \E person_name \in Persons, entries \in Lines :
          GetIndividualRankingLine(person_name, entries)
    \/ CalculateTeamRanking
    \/ DisplayResults

Spec == Init /\ [][Next]_vars

(***************************************************************************)
(* Vocabulary of the properties                                            *)
(***************************************************************************)
\* the reference order: the name of official_rank k at position k
ReferenceNames == [k \in 1..N |-> entry_of(ITEM_NAMES[k]).name]

Reversed(xs) == [k \in 1..Len(xs) |-> xs[Len(xs) + 1 - k]]

\* each of the N reference names exactly once
IsNamePermutation(names) ==
    Len(names) = N /\ elements(names) = official_names

\* each of the N reference items exactly once
IsItemPermutation(ranking) ==
    Len(ranking) = N /\ elements(ranking) = elements(OFFICIAL_ITEMS)

RECURSIVE SumOver(_, _)
SumOver(S, f) ==
    IF S = {} THEN 0
    ELSE LET x == CHOOSE y \in S : TRUE IN f[x] + SumOver(S \ {x}, f)

Accepted == program = "app" /\ response.status = 200
Rejected == program = "app" /\ response.status = 400
Shown == program = "console" /\ last.results.shown
Aggregated == program = "console" /\ last.op = "calculate_team_ranking"
LineRead == program = "console" /\ last.op = "get_individual_ranking"

\* what calculate_score added at 0-based position i of the accepted order
Added(i) ==
    calculate_score(SubSeq(request.elems, 1, i + 1))
        - calculate_score(SubSeq(request.elems, 1, i))

(***************************************************************************)
(* C1                                                                      *)
(***************************************************************************)
\* C1: for every submission that is a permutation of the reference names,
\* calculate_score is >= 0 and is 0 if and only if the submission is the
\* reference order; the same holds of calculate_accuracy on the rankings
\* display_results scores.
C1_ZeroIffReferenceOrder ==
    /\ (Accepted /\ IsNamePermutation(request.elems)) =>
          /\ response.score[1] >= 0
          /\ (response.score[1] = 0) <=> (request.elems = ReferenceNames)
    /\ Shown =>
          \A p \in DOMAIN individual_rankings :
              IsItemPermutation(individual_rankings[p]) =>
                  /\ last.results.individual[p] >= 0
                  /\ (last.results.individual[p] = 0)
                         <=> (individual_rankings[p] = OFFICIAL_ITEMS)
    /\ (Shown /\ IsItemPermutation(team_ranking)) =>
          /\ last.results.team_score >= 0
          /\ (last.results.team_score = 0) <=> (team_ranking = OFFICIAL_ITEMS)

\* the reference order was posted and scored 0
C1_Witness ==
    Accepted /\ request.elems = ReferenceNames /\ response.score = Some(0)

(***************************************************************************)
(* C2                                                                      *)
(***************************************************************************)
\* what the claim says position i of the accepted order adds
C2_Expected(i) ==
    LET name == request.elems[i + 1] IN
    IF name \in official_names
    THEN abs(entry_of(name).official_rank - 1 - i)
    ELSE N

\* C2: in an accepted submission a name that is no reference name adds
\* exactly N to the score wherever it stands, nothing is raised (a score is
\* returned), and a recognized name adds at most N - 1.
C2_UnknownNameAddsN ==
    Accepted =>
        /\ response.error = None
        /\ response.score =
              Some(sum([k \in 1..Len(request.elems) |-> C2_Expected(k - 1)]))
        /\ \A i \in 0..(Len(request.elems) - 1) :
              IF request.elems[i + 1] \in official_names
              THEN Added(i) <= N - 1 /\ Added(i) < N
              ELSE Added(i) = N

\* "X" first, the reference names but one shuffled behind it
C2_Witness ==
    /\ Accepted
    /\ request.elems[1] = UnknownName
    /\ Cardinality(elements(request.elems) \cap official_names) = N - 1
    /\ request.elems # [ReferenceNames EXCEPT ![1] = UnknownName]
    /\ Added(0) = N

(***************************************************************************)
(* C6                                                                      *)
(***************************************************************************)
\* C6: in an accepted submission the per_item diff of a recognized name at
\* 0-based position i is |official_rank - 1 - i|, which is what
\* calculate_score added there; when every name is recognized the score is
\* the sum of the diffs; an unrecognized name has official_rank and diff None.
C6_DiffIsScoreContribution ==
    Accepted =>
        /\ Len(response.per_item) = Len(request.elems)
        /\ \A i \in 0..(Len(request.elems) - 1) :
              LET e == response.per_item[i + 1] IN
              IF e.name \in official_names
              THEN /\ e.official_rank = Some(entry_of(e.name).official_rank)
                   /\ e.diff = Some(abs(e.official_rank[1] - 1 - i))
                   /\ e.diff = Some(Added(i))
              ELSE e.official_rank = None /\ e.diff = None
        /\ elements(request.elems) \subseteq official_names =>
              response.score =
                  Some(sum([k \in 1..Len(response.per_item) |->
                               response.per_item[k].diff[1]]))

\* an accepted submission with a misplaced recognized name and an unknown one
C6_Witness ==
    /\ Accepted
    /\ \E k \in 1..N : /\ response.per_item[k].diff # None
                       /\ response.per_item[k].diff[1] > 0
    /\ \E k \in 1..N : response.per_item[k].diff = None

(***************************************************************************)
(* C7                                                                      *)
(***************************************************************************)
\* C7: no permutation of the reference names scores more than the reversed
\* reference order, with calculate_score and with calculate_accuracy.
C7_ReversedIsMaximal ==
    /\ (Accepted /\ IsNamePermutation(request.elems)) =>
          response.score[1] <= calculate_score(Reversed(ReferenceNames))
    /\ Shown =>
          \A p \in DOMAIN individual_rankings :
              IsItemPermutation(individual_rankings[p]) =>
                  last.results.individual[p]
                      <= calculate_accuracy(Reversed(OFFICIAL_ITEMS))

\* the reversed reference order was posted, and scored more than 0
C7_Witness ==
    /\ Accepted
    /\ request.elems = Reversed(ReferenceNames)
    /\ response.score[1] > 0

(***************************************************************************)
(* C3                                                                      *)
(***************************************************************************)
\* evaluate answered an order that is no list of N names
C3_App ==
    (program = "app" /\ response # NoResponse
        /\ (~request.is_list \/ Len(request.elems) # N)) =>
            /\ response.status = 400
            /\ response.error = Some("invalid order")
            /\ response.score = None
            /\ response.per_item = <<>>
            /\ invoked = <<>>

\* get_individual_ranking read a line that has not N entries
C3_Console ==
    (program = "console" /\ last'.op = "get_individual_ranking"
        /\ last'.entries # N) =>
            individual_rankings' = individual_rankings

\* C3: an order that is not a list of length N gets the "invalid order"
\* answer (status 400) from evaluate and no score is computed; an input
\* line that has not exactly N entries stores no ranking.
C3_WrongLengthRejected == []C3_App /\ [][C3_Console]_vars

\* a list of N - 1 names was posted and refused
C3_Witness ==
    /\ Rejected
    /\ request.is_list
    /\ Len(request.elems) = N - 1
    /\ invoked = <<>>

C5_SingleRankingIsTeamRanking ==
    (Aggregated /\ Cardinality(DOMAIN individual_rankings) = 1) =>
        \A p \in DOMAIN individual_rankings :
            IsItemPermutation(individual_rankings[p]) =>
                team_ranking = individual_rankings[p]

\* one player, whose ranking is not the reference order, was aggregated
C5_Witness ==
    /\ Aggregated
    /\ DOMAIN individual_rankings = {"Player"}
    /\ team_ranking # OFFICIAL_ITEMS
    /\ team_ranking # <<>>

(***************************************************************************)
(* C8                                                                      *)
(***************************************************************************)
\* the 1-based position of an item in a permutation ranking
C8_Position(ranking, item) == CHOOSE k \in 1..Len(ranking) : ranking[k] = item

\* the sum of an item's positions over the stored rankings
C8_PositionSum(item) ==
    SumOver(DOMAIN individual_rankings,
            [p \in DOMAIN individual_rankings |->
                C8_Position(individual_rankings[p], item)])

\* mean position of x < mean position of y, the means taken over n rankings
C8_MeanLess(x, y, n) == C8_PositionSum(x) * n < C8_PositionSum(y) * n
C8_MeanEqual(x, y, n) == C8_PositionSum(x) * n = C8_PositionSum(y) * n

\* C8: after calculate_team_ranking on a non-empty set of permutation
\* rankings, team_ranking holds the reference items by ascending mean
\* position, items of equal mean in reference order.
C8_TeamRankingSortedByMean ==
    (Aggregated /\ DOMAIN individual_rankings # {}
        /\ \A p \in DOMAIN individual_rankings :
              IsItemPermutation(individual_rankings[p])) =>
        /\ IsItemPermutation(team_ranking)
        /\ \A a, b \in 1..N :
              a < b =>
                 LET x == team_ranking[a]
                     y == team_ranking[b]
                     n == Cardinality(DOMAIN individual_rankings)
                 IN  \/ C8_MeanLess(x, y, n)
                     \/ C8_MeanEqual(x, y, n) /\ x.official_rank < y.official_rank

\* two different rankings were aggregated and two items tie
C8_Witness ==
    /\ Aggregated
    /\ DOMAIN individual_rankings = Persons
    /\ individual_rankings["Player"] # individual_rankings["Alice"]
    /\ IsItemPermutation(team_ranking)
    /\ \E a, b \in 1..N :
          /\ a < b
          /\ C8_MeanEqual(team_ranking[a], team_ranking[b], 2)

(***************************************************************************)
(* C9                                                                      *)
(***************************************************************************)
\* C9: no score display_results computes for a permutation ranking (the
\* team's, a participant's) exceeds the "worst possible score"
\* sum(range(N)) it prints.
C9_WorstScoreIsUpperBound ==
    Shown =>
        /\ last.results.worst = sum(range(N))
        /\ IsItemPermutation(team_ranking) =>
              last.results.team_score <= last.results.worst
        /\ \A p \in DOMAIN individual_rankings :
              IsItemPermutation(individual_rankings[p]) =>
                  last.results.individual[p] <= last.results.worst

(***************************************************************************)
(* C10                                                                     *)
(***************************************************************************)
\* every stored ranking, and team_ranking unless empty, is a permutation
C10_Rankings ==
    /\ \A p \in DOMAIN individual_rankings :
          IsItemPermutation(individual_rankings[p])
    /\ team_ranking = <<>> \/ IsItemPermutation(team_ranking)

\* a line that was not saved changed no stored ranking
C10_RejectedLine ==
    (last'.op = "get_individual_ranking" /\ last'.printed # "saved") =>
        individual_rankings' = individual_rankings

\* C10: whatever lines are read, for whatever participants, and whenever
\* calculate_team_ranking is called, every stored ranking is a permutation
\* of the N reference items, a rejected line leaves individual_rankings
\* unchanged, and team_ranking is empty or such a permutation.
C10_RankingsArePermutations == []C10_Rankings /\ [][C10_RejectedLine]_vars

\* both participants stored, aggregated, and then a line was rejected
C10_Witness ==
    /\ LineRead
    /\ last.printed # "saved"
    /\ DOMAIN individual_rankings = Persons
    /\ team_ranking # <<>>
    /\ team_ranking # individual_rankings[last.person]

====
